---- MODULE Spec2Model ----
(***************************************************************************)
(* Hazard-aware routing core of the Disaster repository (src/routing.py):  *)
(* graph acquisition (load_graph / build_grid_graph), the hazard edge      *)
(* filter (block_edges_by_hazards), the three weighted searches and the    *)
(* path materializer (_nodes_to_coords).                                   *)
(*                                                                         *)
(* Encoding of Python values                                               *)
(*   None            [tag |-> "None"]                                      *)
(*   a list          [tag |-> "list", val |-> <<...>>]                     *)
(*   an int          [tag |-> "int", val |-> n]                            *)
(*   a dict          a function whose DOMAIN is the set of present keys    *)
(*   a node id       <<n>> for an integer id, <<r, c>> for a tuple id      *)
(*   a graph         [tag |-> "graph", multi, nodes, edges]                *)
(* Undirected graphs only: an edge is stored once, with u before v.        *)
(***************************************************************************)
EXTENDS Integers, Sequences, FiniteSets, TLC

VARIABLES
    G,          \* the caller's graph object (mutated in place), or None
    acquired,   \* the graph as it was when the caller acquired it
    cache,      \* the file at DATA_PATH
    env,        \* the installed osmnx: does it export nearest_nodes
    last        \* the last call: its name, arguments and outcome

vars == <<G, acquired, cache, env, last>>

-----------------------------------------------------------------------------
(* Python values *)

None == [tag |-> "None"]
List(s) == [tag |-> "list", val |-> s]
IntVal(n) == [tag |-> "int", val |-> n]
Raised(what) == [tag |-> "raise", val |-> what]

EmptyDict == <<>>

HasKey(d, k) == k \in DOMAIN d

\* d.get(k, default)
Get(d, k, default) == IF k \in DOMAIN d THEN d[k] ELSE default

\* d[k] = v
SetKey(d, k, v) == [a \in DOMAIN d \cup {k} |-> IF a = k THEN v ELSE d[a]]

\* isinstance(node, tuple)
IsTuple(n) == Len(n) = 2

\* lexicographic order on node ids
NodeLess(a, b) ==
    \/ a[1] < b[1]
    \/ a[1] = b[1] /\ Len(a) < Len(b)
    \/ a[1] = b[1] /\ Len(a) = 2 /\ Len(b) = 2 /\ a[2] < b[2]

-----------------------------------------------------------------------------
(* Graphs *)

Edge(u, v, k, data) == [u |-> u, v |-> v, k |-> k, data |-> data]

Graph(multi, nodes, edges) ==
    [tag |-> "graph", multi |-> multi, nodes |-> nodes, edges |-> edges]

IsGraph(g) == g.tag = "graph"

\* the edges between u and v, in either orientation
Between(edges, u, v) ==
    {e \in edges : (e.u = u /\ e.v = v) \/ (e.u = v /\ e.v = u)}

GRID_SIZE == 10

\* nx.grid_2d_graph(size, size) with length = 1 on every edge
build_grid_graph(size) ==
    LET ns == {<<r, c>> : r \in 0..(size - 1), c \in 0..(size - 1)}
        right == {Edge(<<r, c>>, <<r, c + 1>>, 0, [length |-> 1]) :
                      r \in 0..(size - 1), c \in 0..(size - 2)}
        down == {Edge(<<r, c>>, <<r + 1, c>>, 0, [length |-> 1]) :
                      r \in 0..(size - 2), c \in 0..(size - 1)}
    IN  Graph(FALSE, [n \in ns |-> EmptyDict], right \cup down)

\* the order in which G.edges() lists the edges: by endpoints, parallel edges
\* in the order they were created (their keys)
EdgeBefore(e, f) ==
    \/ NodeLess(e.u, f.u)
    \/ e.u = f.u /\ NodeLess(e.v, f.v)
    \/ e.u = f.u /\ e.v = f.v /\ e.k < f.k

\* (listed around a middle edge, which keeps the recursion shallow)
RECURSIVE EdgeList(_)
EdgeList(edges) ==
    IF edges = {} THEN <<>>
    ELSE LET half == Cardinality(edges) \div 2
             mid == CHOOSE e \in edges :
                        Cardinality({f \in edges : EdgeBefore(f, e)}) = half
         IN  EdgeList({f \in edges : EdgeBefore(f, mid)})
             \o <<mid>>
             \o EdgeList({f \in edges : EdgeBefore(mid, f)})

-----------------------------------------------------------------------------
(* Geometry: points are <<x, y>>; a hazard polygon is an axis-parallel     *)
(* rectangle; an edge's curved geometry is given by its centroid.          *)

Point(x, y) == <<x, y>>

Rect(x0, y0, x1, y1) == [x0 |-> x0, y0 |-> y0, x1 |-> x1, y1 |-> y1]

\* poly.contains(p): the interior, the boundary excluded
Contains(poly, p) ==
    /\ poly.x0 < p[1] /\ p[1] < poly.x1
    /\ poly.y0 < p[2] /\ p[2] < poly.y1

\* the representative point of an edge, [ok |-> FALSE] when computing it raises
Midpoint(g, e) ==
    IF HasKey(e.data, "geometry")
    THEN [ok |-> TRUE, p |-> e.data["geometry"]]
    ELSE IF /\ HasKey(g.nodes[e.u], "x") /\ HasKey(g.nodes[e.v], "x")
            /\ HasKey(g.nodes[e.u], "y") /\ HasKey(g.nodes[e.v], "y")
         THEN [ok |-> TRUE,
               p |-> Point((g.nodes[e.u]["x"] + g.nodes[e.v]["x"]) \div 2,
                           (g.nodes[e.u]["y"] + g.nodes[e.v]["y"]) \div 2)]
         ELSE [ok |-> FALSE]

-----------------------------------------------------------------------------
(* load_graph.  The file at DATA_PATH is NoFile, BadFile (it exists and     *)
(* ox.load_graphml raises on it) or GraphFile(g).  fetch is what            *)
(* ox.graph_from_point does: a graph, or Raised.  save is what              *)
(* ox.save_graphml does: "ok", "fail" (it raises, the file untouched) or    *)
(* "partial" (it raises, leaving a file that cannot be loaded).             *)

NoFile == [tag |-> "absent"]
BadFile == [tag |-> "corrupt"]
GraphFile(g) == [tag |-> "file", val |-> g]

\* returns [ret |-> the graph returned or Raised(...), cache |-> the file afterwards]
load_graph(online, file, fetch, save) ==
    IF ~online /\ file # NoFile
    THEN [ret |-> IF file.tag = "file" THEN file.val ELSE Raised("load_graphml"),
          cache |-> file]
    ELSE IF fetch.tag = "raise"
         THEN [ret |-> build_grid_graph(GRID_SIZE), cache |-> file]
         ELSE IF save = "ok"
              THEN [ret |-> fetch, cache |-> GraphFile(fetch)]
              ELSE [ret |-> build_grid_graph(GRID_SIZE),
                    cache |-> IF save = "partial" THEN BadFile ELSE file]

-----------------------------------------------------------------------------
(* block_edges_by_hazards *)

\* G.remove_edge(u, v), called without a key: the edge created last between u
\* and v goes; [ok |-> FALSE] is the NetworkXError raised when there is none
remove_edge(edges, u, v) ==
    LET par == Between(edges, u, v)
    IN  IF par = {} THEN [ok |-> FALSE, edges |-> edges]
        ELSE LET gone == CHOOSE e \in par : \A f \in par : f.k <= e.k
             IN  [ok |-> TRUE, edges |-> edges \ {gone}]

\* a polygon loop without the break: the edge is counted for every polygon
\* that holds its midpoint
RECURSIVE PolyLoopWithoutBreak(_, _, _, _, _)
PolyLoopWithoutBreak(st, e, mid, H, i) ==
    IF i > Len(H) THEN st
    ELSE IF Contains(H[i], mid)
         THEN PolyLoopWithoutBreak(
                  [edges |-> remove_edge(st.edges, e.u, e.v).edges,
                   blocked |-> st.blocked + 1], e, mid, H, i + 1)
         ELSE PolyLoopWithoutBreak(st, e, mid, H, i + 1)

\* the loop over the polygons for one edge: st = [edges, blocked]
RECURSIVE PolyLoop(_, _, _, _, _)
PolyLoop(st, e, mid, H, i) ==
    IF i > Len(H) THEN st
    ELSE IF Contains(H[i], mid)
         THEN LET r == remove_edge(st.edges, e.u, e.v)
              IN  IF r.ok
                  THEN [edges |-> r.edges, blocked |-> st.blocked + 1]
                  ELSE st
         ELSE PolyLoop(st, e, mid, H, i + 1)

\* the body of the loop over the edges, for one edge
EdgeStep(g, st, e, H) ==
    LET m == Midpoint(g, e)
    IN  IF m.ok THEN PolyLoop(st, e, m.p, H, 1) ELSE st

\* the loop over the snapshot list(G.edges(data=True)), entries lo..hi in order
\* (first half, then second half, and st evaluated on entry, which keeps the
\* recursion shallow; blocked is never negative)
RECURSIVE EdgeLoop(_, _, _, _, _, _)
EdgeLoop(g, st, snapshot, H, lo, hi) ==
    IF lo > hi \/ st.blocked < 0 THEN st
    ELSE IF lo = hi THEN EdgeStep(g, st, snapshot[lo], H)
    ELSE LET mid == (lo + hi) \div 2
         IN  EdgeLoop(g, EdgeLoop(g, st, snapshot, H, lo, mid), snapshot, H, mid + 1, hi)

\* returns [G |-> the graph afterwards, ret |-> the value returned]; an edge
\* whose midpoint cannot be computed raises KeyError inside the try and changes
\* nothing, so the walk is over the other edges of the snapshot, in its order
block_edges_by_hazards(g, H) ==
    IF g = None \/ H = None THEN [G |-> g, ret |-> IntVal(0)]
    ELSE LET snapshot == EdgeList({e \in g.edges : Midpoint(g, e).ok})
             st == EdgeLoop(g, [edges |-> g.edges, blocked |-> 0],
                            snapshot, H.val, 1, Len(snapshot))
         IN  [G |-> [g EXCEPT !.edges = st.edges], ret |-> IntVal(st.blocked)]

-----------------------------------------------------------------------------
(* nx.shortest_path(G, source, target, weight): bidirectional Dijkstra *)

\* a search that counts hops: the weight attribute is never read
EdgeWeightUnweighted(g, u, v, weight) == 1

\* the weight of stepping from u to v: the lightest parallel edge, an edge
\* without the attribute weighing 1
EdgeWeight(g, u, v, weight) ==
    LET ws == {Get(e.data, weight, 1) : e \in Between(g.edges, u, v)}
    IN  CHOOSE w \in ws : \A x \in ws : w <= x

RECURSIVE NodeList(_)
NodeList(ns) ==
    IF ns = {} THEN <<>>
    ELSE LET first == CHOOSE n \in ns : \A m \in ns \ {n} : NodeLess(n, m)
         IN  <<first>> \o NodeList(ns \ {first})

\* the neighbours of v, in adjacency order
Neighbours(g, v) ==
    NodeList({e.v : e \in {f \in g.edges : f.u = v}}
             \cup {e.u : e \in {f \in g.edges : f.v = v}})

Reverse(s) == [i \in 1..Len(s) |-> s[Len(s) + 1 - i]]

RemoveAt(s, i) == SubSeq(s, 1, i - 1) \o SubSeq(s, i + 1, Len(s))

\* heappop: the index of the least (distance, counter, node) entry
HeapTop(f) ==
    CHOOSE i \in 1..Len(f) :
        \A j \in 1..Len(f) :
            \/ f[i][1] < f[j][1]
            \/ f[i][1] = f[j][1] /\ f[i][2] <= f[j][2]

\* the loop over the neighbours w of v in direction st.dir (1 forward, 2 back)
RECURSIVE Relax(_, _, _, _, _, _)
Relax(g, st, v, ns, i, weight) ==
    IF i > Len(ns) THEN st
    ELSE
      LET w == ns[i]
          dir == st.dir
          vwLength == st.dists[dir][v] + EdgeWeight(g, v, w, weight)
      IN  IF w \in DOMAIN st.dists[dir]
          THEN IF vwLength < st.dists[dir][w]
               THEN [st EXCEPT !.err = "ValueError"]
               ELSE Relax(g, st, v, ns, i + 1, weight)
          ELSE IF w \notin DOMAIN st.seen[dir] \/ vwLength < st.seen[dir][w]
          THEN
            LET seen2 == [st.seen EXCEPT ![dir] = SetKey(@, w, vwLength)]
                paths2 == [st.paths EXCEPT
                             ![dir] = SetKey(@, w, Append(st.paths[dir][v], w))]
                both == w \in DOMAIN seen2[1] /\ w \in DOMAIN seen2[2]
                totaldist == seen2[1][w] + seen2[2][w]
                better == both /\ (st.finalpath = <<>> \/ st.finaldist > totaldist)
                st2 == [st EXCEPT
                          !.seen = seen2,
                          !.paths = paths2,
                          !.fringe[dir] = Append(@, <<vwLength, st.c, w>>),
                          !.c = @ + 1,
                          !.finaldist = IF better THEN totaldist ELSE @,
                          !.finalpath = IF better
                                        THEN paths2[1][w]
                                             \o Tail(Reverse(paths2[2][w]))
                                        ELSE @]
            IN  Relax(g, st2, v, ns, i + 1, weight)
          ELSE Relax(g, st, v, ns, i + 1, weight)

\* one turn of the main loop `while fringe[0] and fringe[1]`; st.out is None
\* while the loop runs, and then the path returned or the exception raised
DijkstraStep(g, st, weight) ==
    IF st.fringe[1] = <<>> \/ st.fringe[2] = <<>>
    THEN [st EXCEPT !.out = Raised("NetworkXNoPath")]
    ELSE
      LET dir == 3 - st.dir
          top == HeapTop(st.fringe[dir])
          dist == st.fringe[dir][top][1]
          v == st.fringe[dir][top][3]
          st1 == [st EXCEPT !.dir = dir, !.fringe[dir] = RemoveAt(@, top)]
      IN  IF v \in DOMAIN st1.dists[dir]
          THEN st1
          ELSE
            LET st2 == [st1 EXCEPT !.dists[dir] = SetKey(@, v, dist)]
            IN  IF v \in DOMAIN st2.dists[3 - dir]
                THEN [st2 EXCEPT !.out = List(st2.finalpath)]
                ELSE LET st3 == Relax(g, st2, v, Neighbours(g, v), 1, weight)
                     IN  IF st3.err # ""
                         THEN [st3 EXCEPT !.out = Raised(st3.err)]
                         ELSE st3

\* the main loop, run until it returns or raises: up to 2^k turns
RECURSIVE DijkstraLoop(_, _, _, _)
DijkstraLoop(g, st, weight, k) ==
    IF st.out # None THEN st
    ELSE IF k = 0 THEN DijkstraStep(g, st, weight)
    ELSE DijkstraLoop(g, DijkstraLoop(g, st, weight, k - 1), weight, k - 1)

bidirectional_dijkstra(g, source, target, weight) ==
    IF source = target THEN List(<<source>>)
    ELSE LET start ==
           [dists |-> <<EmptyDict, EmptyDict>>,
            paths |-> <<SetKey(EmptyDict, source, <<source>>),
                        SetKey(EmptyDict, target, <<target>>)>>,
            fringe |-> <<(<< <<0, 0, source>> >>), (<< <<0, 1, target>> >>)>>,
            seen |-> <<SetKey(EmptyDict, source, 0), SetKey(EmptyDict, target, 0)>>,
            c |-> 2,
            finaldist |-> 0,
            finalpath |-> <<>>,
            dir |-> 2,
            err |-> "",
            out |-> None]
         IN  DijkstraLoop(g, start, weight, 12).out

\* List(path), or Raised(...) for NodeNotFound, NetworkXNoPath and ValueError
shortest_path(g, source, target, weight) ==
    IF source \notin DOMAIN g.nodes \/ target \notin DOMAIN g.nodes
    THEN Raised("NodeNotFound")
    ELSE bidirectional_dijkstra(g, source, target, weight)

-----------------------------------------------------------------------------
(* Node resolution and the path materializer *)

HasXY(g, n) == HasKey(g.nodes[n], "x") /\ HasKey(g.nodes[n], "y")

SqDist(g, n, X, Y) ==
    (g.nodes[n]["x"] - X) * (g.nodes[n]["x"] - X)
    + (g.nodes[n]["y"] - Y) * (g.nodes[n]["y"] - Y)

\* ox.nearest_nodes(G, X, Y): the node nearest to (X, Y), the first of them in
\* node order; it raises when a node has no x or y
nearest_nodes(g, X, Y) ==
    IF DOMAIN g.nodes = {} \/ \E n \in DOMAIN g.nodes : ~HasXY(g, n)
    THEN Raised("ValueError")
    ELSE LET ns == DOMAIN g.nodes
             near == {n \in ns : \A m \in ns : SqDist(g, n, X, Y) <= SqDist(g, m, X, Y)}
         IN  [tag |-> "node",
              val |-> CHOOSE n \in near : \A m \in near \ {n} : NodeLess(n, m)]

\* ox.nearest_nodes(G, p[1], p[0]) if hasattr(ox, 'nearest_nodes') else p
ResolveNode(g, hasNearest, p) ==
    IF hasNearest THEN nearest_nodes(g, p[2], p[1])
    ELSE [tag |-> "node", val |-> p]

\* coordinates are <<lat, lon>>, that is <<y, x>>
RECURSIVE NodesToCoordsLoop(_, _, _, _)
NodesToCoordsLoop(g, path, origin, i) ==
    IF i > Len(path) THEN <<>>
    ELSE LET node == path[i]
             c == IF IsTuple(node) THEN node
                  ELSE IF node \in DOMAIN g.nodes
                       THEN <<Get(g.nodes[node], "y", origin[1]),
                              Get(g.nodes[node], "x", origin[2])>>
                       ELSE origin
         IN  <<c>> \o NodesToCoordsLoop(g, path, origin, i + 1)

nodes_to_coords(g, path, origin, target) ==
    LET coords == NodesToCoordsLoop(g, path, origin, 1)
    IN  IF coords # <<>> THEN coords ELSE <<origin, target>>

-----------------------------------------------------------------------------
(* The three searches.  Each returns [G, ret, path]: the graph afterwards, *)
(* the value returned and the node path found (None when there is none).   *)

\* the part the three searches share: resolve, search, materialize
RouteOn(g, hasNearest, origin, target, weight) ==
    LET o == ResolveNode(g, hasNearest, origin)
        t == ResolveNode(g, hasNearest, target)
        p == shortest_path(g, o.val, t.val, weight)
    IN  IF o.tag = "raise" \/ t.tag = "raise" \/ p.tag = "raise"
        THEN [G |-> g, ret |-> None, path |-> None]
        ELSE [G |-> g,
              ret |-> List(nodes_to_coords(g, p.val, origin, target)),
              path |-> p]

compute_shortest_path(g, hasNearest, origin, target, weight) ==
    IF g = None THEN [G |-> g, ret |-> None, path |-> None]
    ELSE RouteOn(g, hasNearest, origin, target, weight)

\* travel time in units of 1/50 s, so that the quotients are whole numbers
TimeOf(data) ==
    LET speed == Get(data, "speed_kph", 30)
    IN  IF HasKey(data, "length") /\ speed > 0
        THEN (data["length"] * 180) \div speed
        ELSE (Get(data, "length", 100) * 50) \div 10

SafeWeightOf(data) ==
    LET hazard_penalty == Get(data, "hazard_penalty", 0)
        length == Get(data, "length", 100)
    IN  length * (1 + hazard_penalty)

\* the loop writing the travel time onto every edge
AnnotateTime(g) ==
    [g EXCEPT !.edges =
        {[e EXCEPT !.data = SetKey(@, "time", TimeOf(e.data))] : e \in @}]

\* the loop writing the penalised length onto every edge
AnnotateSafeWeight(g) ==
    [g EXCEPT !.edges =
        {[e EXCEPT !.data = SetKey(@, "safe_weight", SafeWeightOf(e.data))] : e \in @}]

\* G.edges(keys=True, data=True) is a TypeError on a graph that is no multigraph
compute_fastest_path(g, hasNearest, origin, target) ==
    IF g = None THEN [G |-> g, ret |-> None, path |-> None]
    ELSE IF ~g.multi THEN [G |-> g, ret |-> None, path |-> None]
    ELSE RouteOn(AnnotateTime(g), hasNearest, origin, target, "time")

compute_safest_path(g, hasNearest, origin, target) ==
    IF g = None THEN [G |-> g, ret |-> None, path |-> None]
    ELSE IF ~g.multi THEN [G |-> g, ret |-> None, path |-> None]
    ELSE RouteOn(AnnotateSafeWeight(g), hasNearest,
                 origin, target, "safe_weight")

-----------------------------------------------------------------------------
(* The graphs and inputs of the model *)

MaxPolys == 2

A == <<1>>
B == <<2>>
C == <<3>>

\* even coordinates, so that the midpoints are whole numbers
NodeAttrs ==
    (A :> [x |-> 0, y |-> 0]) @@ (B :> [x |-> 4, y |-> 4]) @@ (C :> [x |-> 8, y |-> 0])

Pairs == {<<A, B>>, <<B, C>>, <<A, C>>}

\* the triangle A-B (10), B-C (10), A-C (15)
PairLength(p) == IF p = <<A, C>> THEN 15 ELSE 10

\* the data of an extra edge between A and C, laid beside the plain one or in
\* its place
Extras ==
    { [length |-> 25],
      EmptyDict,
      [length |-> 0 - 5],
      [length |-> 10, hazard_penalty |-> 2],
      [length |-> 10, hazard_penalty |-> 0 - 2],
      [length |-> 10, speed_kph |-> 60],
      [length |-> 10, geometry |-> Point(2, 2)],
      [length |-> 10, geometry |-> Point(4, 1)] }

PlainEdges(ps) == {Edge(p[1], p[2], 0, [length |-> PairLength(p)]) : p \in ps}

\* the pairs joined by a plain edge: A-B always, B-C and A-C at will
Topologies == {{<<A, B>>} \cup ps : ps \in SUBSET {<<B, C>>, <<A, C>>}}

\* multigraphs on A, B, C: the plain edges, and at most one extra edge
Worlds ==
    {Graph(TRUE, NodeAttrs, PlainEdges(ps)) : ps \in Topologies}
    \cup
    {Graph(TRUE, NodeAttrs,
           PlainEdges(ps) \cup {Edge(A, C, IF <<A, C>> \in ps THEN 1 ELSE 0, d)}) :
        ps \in Topologies, d \in Extras}

\* hazard zones: one around the midpoint of A-C, and a wider one that also
\* holds the midpoint of A-B
Zones == {Rect(3, 0 - 1, 5, 1), Rect(1, 0 - 1, 5, 3)}

RECURSIVE SeqsUpTo(_, _)
SeqsUpTo(S, n) ==
    IF n = 0 THEN {<<>>}
    ELSE LET shorter == SeqsUpTo(S, n - 1)
         IN  shorter \cup {Append(s, x) : s \in {t \in shorter : Len(t) = n - 1}, x \in S}

HazardInputs == {None} \cup {List(h) : h \in SeqsUpTo(Zones, MaxPolys)}

\* query coordinates <<lat, lon>>: at A, at C, and one nearest to C
Origins == {<<0, 0>>, <<0, 6>>}
Targets == {<<0, 0>>, <<0, 8>>}

-----------------------------------------------------------------------------
(* The routing session: a graph in hand, filtered and searched *)

Init ==
    /\ G \in Worlds \cup {build_grid_graph(GRID_SIZE), None}
    /\ acquired = G
    /\ cache = NoFile
    /\ env \in [nearest_nodes : BOOLEAN]
    /\ last = [op |-> "init"]

Block(H) ==
    LET r == block_edges_by_hazards(G, H)
    IN  /\ G' = r.G
        /\ last' = [op |-> "block", H |-> H, before |-> G, ret |-> r.ret]
        /\ UNCHANGED <<acquired, cache, env>>

Shortest(origin, target) ==
    LET r == compute_shortest_path(G, env.nearest_nodes, origin, target, "length")
    IN  /\ G' = r.G
        /\ last' = [op |-> "shortest", origin |-> origin, target |-> target,
                    ret |-> r.ret, path |-> r.path]
        /\ UNCHANGED <<acquired, cache, env>>

Fastest(origin, target) ==
    LET r == compute_fastest_path(G, env.nearest_nodes, origin, target)
    IN  /\ G' = r.G
        /\ last' = [op |-> "fastest", origin |-> origin, target |-> target,
                    ret |-> r.ret, path |-> r.path]
        /\ UNCHANGED <<acquired, cache, env>>

Safest(origin, target) ==
    LET r == compute_safest_path(G, env.nearest_nodes, origin, target)
    IN  /\ G' = r.G
        /\ last' = [op |-> "safest", origin |-> origin, target |-> target,
                    ret |-> r.ret, path |-> r.path]
        /\ UNCHANGED <<acquired, cache, env>>

Next ==
    \/ \E H \in HazardInputs : Block(H)
    \/ \E o \in Origins, t \in Targets : Shortest(o, t)
    \/ \E o \in Origins, t \in Targets : Fastest(o, t)
    \/ \E o \in Origins, t \in Targets : Safest(o, t)

Spec == Init /\ [][Next]_vars

-----------------------------------------------------------------------------
(* Graph acquisition: load_graph called again and again, the cache file     *)
(* changing under it                                                        *)

\* what the map service can return
ServiceGraphs ==
    {Graph(TRUE, NodeAttrs, PlainEdges(ps)) : ps \in {Pairs, {<<A, B>>}}}

FetchOutcomes == {Raised("graph_from_point")} \cup ServiceGraphs

SaveOutcomes == {"ok", "fail", "partial"}

InitLoad ==
    /\ G = None
    /\ acquired = None
    /\ cache \in {NoFile, BadFile} \cup {GraphFile(g) : g \in ServiceGraphs}
    /\ env \in [nearest_nodes : BOOLEAN]
    /\ last = [op |-> "init"]

\* G = load_graph(online): a call that raises leaves G as it was
LoadGraph(online, fetch, save) ==
    LET r == load_graph(online, cache, fetch, save)
    IN  /\ G' = IF r.ret.tag = "raise" THEN G ELSE r.ret
        /\ acquired' = G'
        /\ cache' = r.cache
        /\ last' = [op |-> "load", online |-> online, file |-> cache,
                    fetch |-> fetch, save |-> save, ret |-> r.ret]
        /\ UNCHANGED env

NextLoad ==
    \E online \in BOOLEAN, fetch \in FetchOutcomes, save \in SaveOutcomes :
        LoadGraph(online, fetch, save)

SpecLoad == InitLoad /\ [][NextLoad]_vars

-----------------------------------------------------------------------------
(* The coordinate materializer on its own: _nodes_to_coords(G, path, origin, *)
(* target) applied to node sequences over graphs whose nodes have both, one *)
(* or none of the attributes x and y.                                        *)

MaxPath == 2

\* the attribute dicts of a node at (x, y) with both, one or none of x and y
CoordAttrs(x, y) == {[x |-> x, y |-> y], [x |-> x], [y |-> y], EmptyDict}

CoordGraphs ==
    {Graph(TRUE, (A :> a) @@ (B :> b), {Edge(A, B, 0, [length |-> 10])}) :
        a \in CoordAttrs(2, 1), b \in CoordAttrs(4, 4)}

\* nodes of the graph, a node id the graph does not hold, a node that is a pair
PathNodes == {A, B, C, <<0, 1>>}

InitCoords ==
    /\ G \in CoordGraphs
    /\ acquired = G
    /\ cache = NoFile
    /\ env = [nearest_nodes |-> TRUE]
    /\ last = [op |-> "init"]

NodesToCoords(path, origin, target) ==
    /\ last' = [op |-> "coords", path |-> path, origin |-> origin,
                target |-> target,
                ret |-> List(nodes_to_coords(G, path, origin, target))]
    /\ UNCHANGED <<G, acquired, cache, env>>

NextCoords ==
    \E path \in SeqsUpTo(PathNodes, MaxPath), origin \in Origins, target \in Targets :
        NodesToCoords(path, origin, target)

SpecCoords == InitCoords /\ [][NextCoords]_vars

-----------------------------------------------------------------------------
(* load_hazards(path, spread_km) of data_loader.py.  A GeoDataFrame is its    *)
(* coordinate system and its polygons.  Geographic coordinates are counted in *)
(* units that Web Mercator maps to 1000 m, so that both projections and the   *)
(* buffer are whole numbers.                                                  *)

MaxFeatures == 2

GeoDataFrame(crs, geometry) == [tag |-> "gdf", crs |-> crs, geometry |-> geometry]

\* gpd.GeoDataFrame(columns=["hazard", "geometry"]): no rows, no coordinate system
EmptyFrame == GeoDataFrame("none", <<>>)

\* gdf.to_crs(epsg=3857): every coordinate from geographic units to metres
to_crs_3857(gdf) ==
    GeoDataFrame("EPSG:3857",
        [i \in 1..Len(gdf.geometry) |->
            LET r == gdf.geometry[i]
            IN  Rect(r.x0 * 1000, r.y0 * 1000, r.x1 * 1000, r.y1 * 1000)])

\* gdf.to_crs(epsg=4326): every coordinate from metres to geographic units
to_crs_4326(gdf) ==
    GeoDataFrame("EPSG:4326",
        [i \in 1..Len(gdf.geometry) |->
            LET r == gdf.geometry[i]
            IN  Rect(r.x0 \div 1000, r.y0 \div 1000, r.x1 \div 1000, r.y1 \div 1000)])

\* gdf["geometry"] = gdf.buffer(d): every polygon grown by d on all sides, the
\* coordinate system kept
buffer(gdf, d) ==
    [gdf EXCEPT !.geometry =
        [i \in 1..Len(gdf.geometry) |->
            LET r == gdf.geometry[i]
            IN  Rect(r.x0 - d, r.y0 - d, r.x1 + d, r.y1 + d)]]

\* the file at path: absent, or a feature collection of polygons
NoHazardFile == [tag |-> "absent"]
HazardFile(polys) == [tag |-> "geojson", features |-> polys]

\* file: the file at path; read: "read_file" when gpd.read_file parses it,
\* "json" when it raises and the json fallback parses it, "raise" when the
\* fallback raises too; failing: the step of the buffering sequence that raises
\* (1 projection, 2 buffer, 3 projection back), 0 when none does
load_hazards(file, read, spread_km, failing) ==
    IF file = NoHazardFile THEN EmptyFrame
    ELSE IF read = "raise" THEN Raised("json")
    ELSE LET gdf == GeoDataFrame("EPSG:4326", file.features)
         IN  IF spread_km > 0 /\ gdf.geometry # <<>>
             THEN IF failing = 1 THEN gdf
                  ELSE LET projected == to_crs_3857(gdf)
                       IN  IF failing = 2 THEN projected
                           ELSE LET buffered == buffer(projected, spread_km * 1000)
                                IN  IF failing = 3 THEN buffered
                                    ELSE to_crs_4326(buffered)
             ELSE gdf

HazardFiles ==
    {NoHazardFile} \cup {HazardFile(polys) : polys \in SeqsUpTo(Zones, MaxFeatures)}

ReadOutcomes == {"read_file", "json", "raise"}

SpreadKm == {0, 1, 2}

FailingSteps == 0..3

InitHazards ==
    /\ G = None
    /\ acquired = None
    /\ cache = NoFile
    /\ env = [nearest_nodes |-> TRUE]
    /\ last = [op |-> "init"]

LoadHazards(file, read, spread_km, failing) ==
    /\ last' = [op |-> "hazards", file |-> file, read |-> read,
                spread_km |-> spread_km, failing |-> failing,
                ret |-> load_hazards(file, read, spread_km, failing)]
    /\ UNCHANGED <<G, acquired, cache, env>>

NextHazards ==
    \E file \in HazardFiles, read \in ReadOutcomes,
       spread_km \in SpreadKm, failing \in FailingSteps :
        LoadHazards(file, read, spread_km, failing)

SpecHazards == InitHazards /\ [][NextHazards]_vars

-----------------------------------------------------------------------------
(* Properties of the hazard edge filter *)

\* the representative point of e can be computed and lies inside a polygon of H
InSomePolygon(g, e, H) ==
    LET m == Midpoint(g, e)
    IN  m.ok /\ \E i \in 1..Len(H) : Contains(H[i], m.p)

\* the representative point of e can be computed and lies in no polygon of H
OutsideAllPolygons(g, e, H) ==
    LET m == Midpoint(g, e)
    IN  m.ok /\ \A i \in 1..Len(H) : ~Contains(H[i], m.p)

\* C1: after block_edges_by_hazards(G, H) returns, every edge it removed has
\* its representative point inside at least one polygon of H, and every edge
\* still in G whose representative point can be computed has it outside all
\* polygons of H (multigraphs with parallel edges included).
C1_RemovedInsideKeptOutside ==
    (last.op = "block" /\ IsGraph(G) /\ last.H # None) =>
        /\ \A e \in last.before.edges \ G.edges : InSomePolygon(G, e, last.H.val)
        /\ \A e \in G.edges :
               Midpoint(G, e).ok => OutsideAllPolygons(G, e, last.H.val)

\* C2: a second call of block_edges_by_hazards with the same hazard set, right
\* after the first, returns 0 and removes no edge.
C2_SecondRunRemovesNothing ==
    [][(last.op = "block" /\ last'.op = "block" /\ last'.H = last.H)
           => (last'.ret = IntVal(0) /\ G' = G)]_vars

\* the edges of g by endpoints and key, whatever their data
EdgeIds(g) == {<<e.u, e.v, e.k>> : e \in g.edges}

\* C11: block_edges_by_hazards adds or removes no node and adds no edge: after
\* any sequence of calls the nodes are those of the graph as acquired and the
\* edges are among its edges, and each call returns the number of edges it
\* removed (edges before minus edges after), an edge inside several polygons
\* counting once.
C11_OnlyEdgesRemovedAndCounted ==
    IsGraph(G) =>
        /\ DOMAIN G.nodes = DOMAIN acquired.nodes
        /\ EdgeIds(G) \subseteq EdgeIds(acquired)
        /\ last.op = "block" =>
               /\ G.nodes = last.before.nodes
               /\ G.edges \subseteq last.before.edges
               /\ last.ret = IntVal(Cardinality(last.before.edges)
                                      - Cardinality(G.edges))

\* a call removed an edge whose representative point lies inside two polygons
\* of the hazard set, and returned 1
C11_Witness ==
    /\ last.op = "block" /\ IsGraph(G) /\ last.H # None
    /\ last.ret = IntVal(1)
    /\ \E e \in last.before.edges \ G.edges :
           LET m == Midpoint(G, e)
           IN  /\ m.ok
               /\ Cardinality({i \in 1..Len(last.H.val) :
                                  Contains(last.H.val[i], m.p)}) >= 2

-----------------------------------------------------------------------------
(* Properties of the searches *)

\* the length the shortest search gives the step u - v: that of the shortest
\* parallel edge, an edge without a length counting 1
StepLength(g, u, v) ==
    LET ls == {Get(e.data, "length", 1) : e \in Between(g.edges, u, v)}
    IN  CHOOSE l \in ls : \A x \in ls : l <= x

NonNegativeWeights(g) ==
    \A e \in g.edges :
        Get(e.data, "length", 0) >= 0 /\ Get(e.data, "hazard_penalty", 0) >= 0

AdjacentTo(g, n) ==
    {e.v : e \in {f \in g.edges : f.u = n}} \cup {e.u : e \in {f \in g.edges : f.v = n}}

\* one round of relaxation of the distances d (a dict from the nodes reached)
RelaxAll(g, d) ==
    LET reached == DOMAIN d \cup UNION {AdjacentTo(g, n) : n \in DOMAIN d}
    IN  [n \in reached |->
            LET cands == (IF n \in DOMAIN d THEN {d[n]} ELSE {})
                         \cup {d[m] + StepLength(g, m, n) : m \in AdjacentTo(g, n) \cap DOMAIN d}
            IN  CHOOSE c \in cands : \A x \in cands : c <= x]

\* relaxation to its fixed point, at most 2^k rounds (lengths not negative)
RECURSIVE RelaxToFixpoint(_, _, _)
RelaxToFixpoint(g, d, k) ==
    LET r == RelaxAll(g, d)
    IN  IF r = d THEN d
        ELSE IF k = 0 THEN r
        ELSE RelaxToFixpoint(g, RelaxToFixpoint(g, r, k - 1), k - 1)

\* the least total length of a walk from s to each node it reaches
Distances(g, s) == RelaxToFixpoint(g, SetKey(EmptyDict, s, 0), 8)

IsPathIn(g, p, s, t) ==
    /\ Len(p) >= 1 /\ p[1] = s /\ p[Len(p)] = t
    /\ \A i \in 1..(Len(p) - 1) : Between(g.edges, p[i], p[i + 1]) # {}

RECURSIVE PathLength(_, _, _)
PathLength(g, p, i) ==
    IF i >= Len(p) THEN 0
    ELSE StepLength(g, p[i], p[i + 1]) + PathLength(g, p, i + 1)

\* the coordinates <<lat, lon>> of the nodes of p, all of which have them
CoordsOf(g, p) ==
    [i \in 1..Len(p) |->
        IF IsTuple(p[i]) THEN p[i] ELSE <<g.nodes[p[i]]["y"], g.nodes[p[i]]["x"]>>]

\* the edges of g as (u, v, length) triples
Lengths(g) == {<<e.u, e.v, Get(e.data, "length", 1)>> : e \in g.edges}

IsTriangle(g) ==
    /\ IsGraph(g) /\ Cardinality(g.edges) = 3
    /\ Lengths(g) = {<<A, B, 10>>, <<B, C, 10>>, <<A, C, 15>>}

IsTriangleWithoutAC(g) ==
    /\ IsGraph(g) /\ Cardinality(g.edges) = 2
    /\ Lengths(g) = {<<A, B, 10>>, <<B, C, 10>>}

\* the request A to C on a graph whose nodes are resolved by nearest_nodes
FromAToC == env.nearest_nodes /\ last.origin = <<0, 0>> /\ last.target = <<0, 8>>

\* C3: on the graph as it is after any runs of the hazard filter (lengths not
\* negative), compute_shortest_path between two nodes of the graph that are
\* connected returns the coordinates of a path that uses only edges of the
\* graph and whose total length is the least there is; on the triangle A-B 10,
\* B-C 10, A-C 15 the search A to C returns [A, C], and [A, B, C] once the
\* filter has removed A-C.
C3_ShortestIsMinimal ==
    (last.op = "shortest" /\ IsGraph(G)) =>
        LET o == ResolveNode(G, env.nearest_nodes, last.origin)
            t == ResolveNode(G, env.nearest_nodes, last.target)
        IN  /\ ( /\ NonNegativeWeights(G)
                 /\ o.tag = "node" /\ t.tag = "node"
                 /\ o.val \in DOMAIN G.nodes
                 /\ t.val \in DOMAIN Distances(G, o.val) )
                => /\ last.path.tag = "list"
                   /\ IsPathIn(G, last.path.val, o.val, t.val)
                   /\ PathLength(G, last.path.val, 1) = Distances(G, o.val)[t.val]
                   /\ last.ret = List(CoordsOf(G, last.path.val))
            /\ (FromAToC /\ IsTriangle(G))
                => last.ret = List(<< <<0, 0>>, <<0, 8>> >>)
            /\ (FromAToC /\ IsTriangle(acquired) /\ IsTriangleWithoutAC(G))
                => last.ret = List(<< <<0, 0>>, <<4, 4>>, <<0, 8>> >>)

\* the filter took A-C out of the triangle and the search A to C went round by B
C3_Witness ==
    /\ last.op = "shortest" /\ FromAToC
    /\ IsTriangle(acquired) /\ IsTriangleWithoutAC(G)
    /\ last.ret = List(<< <<0, 0>>, <<4, 4>>, <<0, 8>> >>)

Searches == {"shortest", "fastest", "safest"}

\* every edge has no hazard penalty (or a zero one) and the same speed
NoPenaltyUniformSpeed(g) ==
    /\ \A e \in g.edges : Get(e.data, "hazard_penalty", 0) = 0
    /\ \A e, f \in g.edges :
           Get(e.data, "speed_kph", 30) = Get(f.data, "speed_kph", 30)

\* C4, for the multigraphs among the graphs load_graph produces: when every
\* edge has hazard_penalty 0 or none and the same speed_kph or none,
\* compute_fastest_path and compute_safest_path return the same route as
\* compute_shortest_path for the same origin and target, edges without a length
\* attribute included.
C4_DegenerateEquivalence ==
    ( /\ last.op \in {"fastest", "safest"}
      /\ IsGraph(G) /\ G.multi /\ NoPenaltyUniformSpeed(G) ) =>
        last.ret = compute_shortest_path(G, env.nearest_nodes,
                                         last.origin, last.target, "length").ret

\* the nodes a walk from s reaches, by at most 2^k rounds of growing the set
RECURSIVE GrowToFixpoint(_, _, _)
GrowToFixpoint(g, S, k) ==
    LET T == S \cup UNION {AdjacentTo(g, n) : n \in S}
    IN  IF T = S THEN S
        ELSE IF k = 0 THEN T
        ELSE GrowToFixpoint(g, GrowToFixpoint(g, T, k - 1), k - 1)

ReachableFrom(g, s) == GrowToFixpoint(g, {s}, 8)

\* C9: a search between two nodes of the graph with no path between them
\* (disjoint components, or the target cut off by the hazard filter) returns
\* None, and None is neither the empty list nor what a search from a node to
\* itself returns, which is a non-empty route.
C9_NoPathIsNone ==
    (last.op \in Searches /\ IsGraph(G)) =>
        LET o == ResolveNode(G, env.nearest_nodes, last.origin)
            t == ResolveNode(G, env.nearest_nodes, last.target)
        IN  ( /\ o.tag = "node" /\ t.tag = "node"
              /\ o.val \in DOMAIN G.nodes /\ t.val \in DOMAIN G.nodes )
            => /\ t.val \notin ReachableFrom(G, o.val) => last.ret = None
               /\ o.val = t.val => (last.ret.tag = "list" /\ last.ret.val # <<>>)
               /\ None # List(<<>>)

\* an edge of g has a negative length or hazard_penalty that makes the weight
\* the search op minimises negative
HasNegativeWeight(g, op) ==
    \E e \in g.edges :
        /\ Get(e.data, "length", 0) < 0 \/ Get(e.data, "hazard_penalty", 0) < 0
        /\ CASE op = "shortest" -> Get(e.data, "length", 1) < 0
              [] op = "fastest"  -> TimeOf(e.data) < 0
              [] op = "safest"   -> SafeWeightOf(e.data) < 0

\* C10: when an edge of the graph has a negative length or a negative
\* hazard_penalty (and with it a negative weight for the search), a search
\* between two different nodes of the graph fails cleanly: it returns None,
\* never a route.
C10_NegativeWeightsFail ==
    (last.op \in Searches /\ IsGraph(G) /\ HasNegativeWeight(G, last.op)) =>
        LET o == ResolveNode(G, env.nearest_nodes, last.origin)
            t == ResolveNode(G, env.nearest_nodes, last.target)
        IN  ( /\ o.tag = "node" /\ t.tag = "node"
              /\ o.val \in DOMAIN G.nodes /\ t.val \in DOMAIN G.nodes
              /\ o.val # t.val )
            => last.ret = None

\* g has no coordinate index: its nodes are (row, column) pairs without x, y
NoCoordinateIndex(g) ==
    \A n \in DOMAIN g.nodes : IsTuple(n) /\ ~HasXY(g, n)

\* g has a coordinate index: every node has x and y
HasCoordinateIndex(g) ==
    \A n \in DOMAIN g.nodes : HasXY(g, n)

\* C12: on a graph without coordinate index (the grid graph) the origin and
\* target are used as node keys, so compute_shortest_path between two
\* coordinates that are grid nodes returns a route from the one to the other;
\* and pass-through is taken only then: on a graph with a coordinate index the
\* search returns what resolution by nearest node gives.
C12_PassThroughOnGrid ==
    (last.op = "shortest" /\ IsGraph(G)) =>
        /\ ( /\ NoCoordinateIndex(G)
              /\ last.origin \in DOMAIN G.nodes /\ last.target \in DOMAIN G.nodes )
            => /\ last.ret.tag = "list"
               /\ Len(last.ret.val) >= 1
               /\ last.ret.val[1] = last.origin
               /\ last.ret.val[Len(last.ret.val)] = last.target
        /\ HasCoordinateIndex(G)
            => last.ret = RouteOn(G, TRUE, last.origin, last.target, "length").ret

-----------------------------------------------------------------------------
(* Properties of graph acquisition (under SpecLoad) *)

\* the call went on to the online fetch
FetchAttempted == last.op = "load" /\ (last.online \/ last.file = NoFile)

\* C5: load_graph(online=False) with no cache file at DATA_PATH returns the
\* synthetic 10x10 grid graph, which has exactly 180 edges, and not a graph
\* fetched from the map service.
C5_OfflineNoCacheGivesGrid ==
    (last.op = "load" /\ ~last.online /\ last.file = NoFile) =>
        /\ last.ret = build_grid_graph(GRID_SIZE)
        /\ Cardinality(last.ret.edges) = 180

\* C6: load_graph never raises: whatever the online flag, the cache file, and
\* the outcomes of loading it, of the fetch and of the cache write, it returns
\* a graph, the grid graph when everything failed.
C6_LoadNeverRaises ==
    last.op = "load" =>
        /\ IsGraph(last.ret)
        /\ (last.fetch.tag = "raise" /\ last.file.tag # "file")
               => last.ret = build_grid_graph(GRID_SIZE)

\* C7: when the online fetch fails, load_graph returns the cached graph if a
\* cache file holds one, and the grid graph only if none does; it does not
\* raise.
C7_FetchFailureFallsBackToCache ==
    (FetchAttempted /\ last.fetch.tag = "raise") =>
        last.ret = IF last.file.tag = "file" THEN last.file.val
                   ELSE build_grid_graph(GRID_SIZE)

\* C8: when load_graph performs the online fetch and the fetch succeeds, it
\* returns the fetched graph and the cache file holds that graph afterwards;
\* the grid graph never takes its place.
C8_FetchedGraphIsReturned ==
    (FetchAttempted /\ last.fetch.tag = "graph") =>
        /\ last.ret = last.fetch
        /\ cache = GraphFile(last.fetch)

-----------------------------------------------------------------------------
(* Properties of the coordinate materializer (under SpecCoords) *)

\* C13: _nodes_to_coords maps a non-empty node sequence to a coordinate
\* sequence of the same length and order: the node itself when it is a pair,
\* else (y, x) of the node when it has both, else exactly the origin, never a
\* pair made of one node attribute and one component of the origin.
C13_CoordsOrOrigin ==
    (last.op = "coords" /\ last.path # <<>>) =>
        /\ last.ret.tag = "list"
        /\ Len(last.ret.val) = Len(last.path)
        /\ \A i \in 1..Len(last.path) :
               LET node == last.path[i]
               IN  last.ret.val[i] =
                       IF IsTuple(node) THEN node
                       ELSE IF node \in DOMAIN G.nodes /\ HasXY(G, node)
                            THEN <<G.nodes[node]["y"], G.nodes[node]["x"]>>
                            ELSE last.origin

-----------------------------------------------------------------------------
(* Properties of the hazard loader (under SpecHazards) *)

\* the call read polygons and entered the buffering sequence, and a step of
\* the sequence raised
BufferingFailed ==
    /\ last.op = "hazards"
    /\ last.file # NoHazardFile /\ last.read # "raise"
    /\ last.spread_km > 0 /\ last.file.features # <<>>
    /\ last.failing \in 1..3

\* C14: when spread_km > 0 and a step of the buffering sequence (projection to
\* metres, buffer, projection back) fails, load_hazards returns the polygons
\* as read, unbuffered and in geographic coordinates, never polygons left in
\* the planar projection or partly processed.
C14_FailedBufferReturnsOriginal ==
    BufferingFailed => last.ret = GeoDataFrame("EPSG:4326", last.file.features)

====
